---------------------------- MODULE Spec2Model ----------------------------
(***************************************************************************)
(* Biotuner cart pipeline: the run orchestrator (cart_runner.py), its      *)
(* activity log and commit message, and the library functions of the       *)
(* carts: gesture valuation and token aggregation                          *)
(* (cart_location_tracker.py), the search of brain.py                      *)
(* (cart_memory_search.py), the value-to-frequency map and the tuned       *)
(* signal (cart_signal_generator.py) and the build tiers                   *)
(* (cart_robotic_builder.py).                                              *)
(*                                                                         *)
(* Numbers.  Gesture quantities (force, pixels, seconds, dollars) are      *)
(* Python floats; they are modelled in fixed point, in hundredths (Scale). *)
(* Token values handed to the orchestrator and the builder are dollar      *)
(* amounts up to 1e12 and beyond; they are modelled in units of 1000       *)
(* dollars.  The signal generator is given decimal floats m * 10^e and     *)
(* computes in thousandths (Milli).                                        *)
(***************************************************************************)
EXTENDS Integers, Sequences, FiniteSets, TLC

VARIABLES
    modules,     \* the four module globals of cart_runner.py: TRUE = imported, FALSE = None
    brainFile,   \* brain.py on disk: "absent", "text" or "undecodable"
    logFile,     \* mongoose/activity_log.json on disk
    now,         \* the clock read by datetime.utcnow()
    pc,          \* per orchestrator process: its position in main()
    args,        \* per process: the arguments of run_all_carts after its defaults
    results,     \* per process: CartRunner.results
    ret,         \* per process: the value returned by the last stage method
    started,     \* per process: the stage methods entered so far, in order
    save_args,   \* per process: the arguments and I/O conditions of its save_to_activity_log
    log_data,    \* per process: the local log_data of save_to_activity_log
    save_ret,    \* per process: what save_to_activity_log returned ("None" before it has)
    overlapped,  \* per process: another save_to_activity_log ran between its load and its write
    events,      \* the gesture session's list of tracked events
    token,       \* what calculate_movement_token returned for that list, once called
    message,     \* per process: the commit message main() printed, once it has
    call,        \* the arguments of the library calls a client made, in order
    reply        \* what each of those calls returned (with its locals, where a claim needs them)

vars == <<modules, brainFile, logFile, now, pc, args, results, ret, started,
          save_args, log_data, save_ret, overlapped, events, token, message,
          call, reply>>

runVars == <<modules, brainFile, logFile, now, pc, args, results, ret, started,
             save_args, log_data, save_ret, overlapped>>

trackVars == <<events, token>>

callVars == <<call, reply>>

----------------------------------------------------------------------------
(* Bounds *)

MaxRuns == 2      \* orchestrator processes
MaxEvents == 3    \* longest gesture session

Runners == 1..MaxRuns

None == "None"

EmptyMap == [x \in {} |-> TRUE]

----------------------------------------------------------------------------
(* Module import, cart_runner.py lines 15-25 *)

Stages == {"memory_search", "signal_generator", "robotic_builder", "location_tracker"}

\* One try block imports the four modules; any ImportError sets all four to None.
ModuleImports == {[s \in Stages |-> TRUE], [s \in Stages |-> FALSE]}

ModuleNotAvailable == [error |-> "Module not available"]

----------------------------------------------------------------------------
(* cart_location_tracker.py *)

Scale == 100

Min(a, b) == IF a <= b THEN a ELSE b
Max(a, b) == IF a >= b THEN a ELSE b

RECURSIVE IsqrtFrom(_, _)
IsqrtFrom(n, x) ==
    LET y == (x + n \div x) \div 2
    IN  IF y >= x THEN x ELSE IsqrtFrom(n, y)

\* math.sqrt, rounded down
Isqrt(n) == IF n <= 0 THEN 0 ELSE IsqrtFrom(n, n)

calculate_tap_value(force) ==
    LET base_value == 1 * Scale
        multiplier == Scale + force * 99
    IN  (base_value * multiplier) \div Scale

calculate_slide_value(distance, velocity) ==
    LET base_value == 10
        distance_factor == Min(distance \div 100, 10 * Scale)
        velocity_factor == Min(velocity \div 100, 10 * Scale)
        multiplier == Scale + distance_factor + velocity_factor
    IN  base_value * multiplier

track_tap_event(x, y, force, t) ==
    [timestamp |-> t, type |-> "tap", coordinates |-> <<x, y>>, force |-> force,
     token_value |-> calculate_tap_value(force)]

track_slide_event(start_x, start_y, end_x, end_y, duration, t) ==
    LET dx == end_x - start_x
        dy == end_y - start_y
        distance == Isqrt((dx * dx + dy * dy) * Scale * Scale)
        velocity == (distance * Scale) \div Max(duration, 1)
    IN  [timestamp |-> t, type |-> "slide", start |-> <<start_x, start_y>>,
         end |-> <<end_x, end_y>>, distance |-> distance, duration |-> duration,
         velocity |-> velocity,
         token_value |-> calculate_slide_value(distance, velocity)]

track_location_change(lat, lon, t) ==
    [timestamp |-> t, type |-> "location", coordinates |-> <<lat, lon>>,
     token_value |-> 5 * Scale]

\* e.get('token_value', 0)
GetTokenValue(e) == IF "token_value" \in DOMAIN e THEN e.token_value ELSE 0

\* range(len(events) - 1): the last event is left out of the sum
RECURSIVE SumFrom_short(_, _, _)
SumFrom_short(es, i, acc) ==
    IF i >= Len(es) THEN acc ELSE SumFrom_short(es, i + 1, acc + GetTokenValue(es[i]))

\* sum(e.get('token_value', 0) for e in events): left to right from 0
RECURSIVE SumFrom(_, _, _)
SumFrom(es, i, acc) ==
    IF i > Len(es) THEN acc ELSE SumFrom(es, i + 1, acc + GetTokenValue(es[i]))

CountType(es, ty) == Cardinality({i \in 1..Len(es) : es[i].type = ty})

\* The token's hash (Python's per-process hash of the timestamps) and its
\* formatted value are not modelled.
calculate_movement_token(es, t) ==
    IF es = <<>>
    THEN [error |-> "No events provided"]
    ELSE [timestamp |-> t,
          type |-> "movement_token",
          event_count |-> Len(es),
          pattern |-> [taps |-> CountType(es, "tap"),
                       slides |-> CountType(es, "slide"),
                       locations |-> CountType(es, "location")],
          total_value |-> SumFrom(es, 1, 0),
          events |-> es]


----------------------------------------------------------------------------
(* cart_memory_search.py *)

BrainFiles == {"absent", "text", "undecodable"}

\* The queries of the orchestrator's command line and of the library's callers,
\* and the category names, with their characters.
Chars ==
    ("" :> <<>>) @@ ("cat" :> <<"c", "a", "t">>) @@ ("CAT" :> <<"C", "A", "T">>)
    @@ ("t\nt" :> <<"t", "\n", "t">>)
    @@ ("CATS" :> <<"C", "A", "T", "S">>) @@ ("WATER" :> <<"W", "A", "T", "E", "R">>)
    @@ ("TREES" :> <<"T", "R", "E", "E", "S">>) @@ ("PEOPLE" :> <<"P", "E", "O", "P", "L", "E">>)

Queries == {None, "cat"}

UpperCase ==
    <<"A", "B", "C", "D", "E", "F", "G", "H", "I", "J", "K", "L", "M",
      "N", "O", "P", "Q", "R", "S", "T", "U", "V", "W", "X", "Y", "Z">>
LowerCase ==
    <<"a", "b", "c", "d", "e", "f", "g", "h", "i", "j", "k", "l", "m",
      "n", "o", "p", "q", "r", "s", "t", "u", "v", "w", "x", "y", "z">>

\* str.lower()
Lower(s) ==
    [k \in DOMAIN s |->
        IF \E n \in DOMAIN UpperCase : UpperCase[n] = s[k]
        THEN LowerCase[CHOOSE n \in DOMAIN UpperCase : UpperCase[n] = s[k]]
        ELSE s[k]]

\* needle in hay
Contains(needle, hay) ==
    \E k \in 0..(Len(hay) - Len(needle)) : SubSeq(hay, k + 1, k + Len(needle)) = needle

\* line.startswith(prefix)
StartsWith(line, prefix) ==
    Len(line) >= Len(prefix) /\ SubSeq(line, 1, Len(prefix)) = prefix

\* '\n'.join(lines)
RECURSIVE JoinLines(_)
JoinLines(lines) ==
    IF lines = <<>> THEN <<>>
    ELSE IF Len(lines) = 1 THEN lines[1]
    ELSE lines[1] \o <<"\n">> \o JoinLines(Tail(lines))

\* s.split('\n')
RECURSIVE SplitFrom(_, _, _, _)
SplitFrom(s, k, current, acc) ==
    IF k > Len(s) THEN Append(acc, current)
    ELSE IF s[k] = "\n" THEN SplitFrom(s, k + 1, <<>>, Append(acc, current))
    ELSE SplitFrom(s, k + 1, Append(current, s[k]), acc)

SplitLines(s) == SplitFrom(s, 1, <<>>, <<>>)

BlockMarker == <<"#", "=", "=", "=", "=", "B", "L", "O", "C", "K", "=", "=", "=", "=">>

\* the loop that finds the accumulated blocks, from line k of the file on
RECURSIVE ParseBlocks(_, _, _, _, _)
ParseBlocks(lines, k, blocks, current_block, in_block) ==
    LET closed == IF current_block # <<>>
                  THEN Append(blocks, JoinLines(current_block))
                  ELSE blocks
    IN  IF k > Len(lines) THEN closed
        ELSE IF Contains(BlockMarker, lines[k])
        THEN ParseBlocks(lines, k + 1, closed, <<>>, TRUE)
        ELSE IF in_block /\ StartsWith(lines[k], <<"#", " ">>)
        THEN ParseBlocks(lines, k + 1, blocks,
                         Append(current_block, SubSeq(lines[k], 3, Len(lines[k]))),
                         in_block)
        ELSE ParseBlocks(lines, k + 1, blocks, current_block, in_block)

\* the context is the matching line alone
Match_no_context(i, j, lines_in_block) ==
    [block_index |-> i, line_index |-> j,
     content |-> lines_in_block[j + 1],
     context |-> <<lines_in_block[j + 1]>>]

\* one appended match; i and j count from 0 as enumerate does
Match(i, j, lines_in_block) ==
    [block_index |-> i, line_index |-> j,
     content |-> lines_in_block[j + 1],
     context |-> SubSeq(lines_in_block, Max(0, j - 1) + 1,
                        Min(Len(lines_in_block), j + 2))]

\* the inner loop over the lines of block i, from line j on
RECURSIVE MatchesInBlock(_, _, _, _, _)
MatchesInBlock(q, i, lines_in_block, j, matches) ==
    IF j >= Len(lines_in_block) THEN matches
    ELSE MatchesInBlock(q, i, lines_in_block, j + 1,
                        IF Contains(Lower(q), Lower(lines_in_block[j + 1]))
                        THEN Append(matches, Match(i, j, lines_in_block))
                        ELSE matches)

\* the outer loop over the blocks, from block i on
RECURSIVE MatchesInBlocks(_, _, _, _)
MatchesInBlocks(q, blocks, i, matches) ==
    IF i >= Len(blocks) THEN matches
    ELSE MatchesInBlocks(q, blocks, i + 1,
                         IF Contains(Lower(q), Lower(blocks[i + 1]))
                         THEN MatchesInBlock(q, i, SplitLines(blocks[i + 1]), 0, matches)
                         ELSE matches)

Categories == {"CATS", "WATER", "TREES", "PEOPLE"}

\* search_brain_memory once brain.py has been read and split into lines
SearchLines(lines, query) ==
    LET blocks == ParseBlocks(lines, 1, <<>>, <<>>, FALSE)
        matches == IF query # None /\ Chars[query] # <<>>
                   THEN MatchesInBlocks(Chars[query], blocks, 0, <<>>)
                   ELSE <<>>
        categories ==
            [cat \in Categories |->
                Cardinality({k \in DOMAIN lines :
                                Contains(<<"#", " ">> \o Chars[cat], lines[k])})]
    IN  [query |-> query,
         matches |-> matches,
         stats |-> [total_blocks |-> Len(blocks),
                    total_lines |-> Len(lines),
                    categories |-> categories,
                    match_count |-> Len(matches)]]

\* lines of a brain.py
MarkerLine == BlockMarker
CatLine == <<"#", " ", "C", "a", "t">>
CatsLine == <<"#", " ", "C", "A", "T", "S">>
TreeLine == <<"#", " ", "t", "r", "e", "e">>
CodeLine == <<"x", " ", "=", " ", "1">>

\* the readable brain.py of the orchestrator runs: content.split('\n')
BrainText == <<CodeLine, MarkerLine, CatLine, TreeLine, MarkerLine, CatsLine, <<>> >>

\* search_brain_memory: a missing file is reported as data, a file that cannot be
\* decoded raises out of f.read().  The timestamp is left out.
search_brain_memory(brain, query) ==
    IF brain = "absent"
    THEN [raised |-> FALSE,
          value |-> [query |-> query, matches |-> <<>>, stats |-> EmptyMap,
                     error |-> "brain.py not found"]]
    ELSE IF brain = "undecodable"
    THEN [raised |-> TRUE]
    ELSE [raised |-> FALSE, value |-> SearchLines(BrainText, query)]

\* perform_full_search: the token directory and the ledger directory are absent
perform_full_search(brain, query) ==
    LET b == search_brain_memory(brain, query)
    IN  IF b.raised
        THEN [raised |-> TRUE]
        ELSE [raised |-> FALSE,
              value |-> [query |-> query, brain_results |-> b.value,
                         token_results |-> [pattern |-> query, tokens |-> <<>>],
                         ledger_results |-> [entries |-> <<>>]]]

----------------------------------------------------------------------------
(* cart_signal_generator.py *)

\* Token values reach 1e30 dollars and beyond before the frequency saturates, so
\* the values given to the signal generator are decimal floats m * 10^e with one
\* digit of mantissa: m = 0 is zero and m < 0 a negative amount.  Frequencies,
\* logarithms and powers are fixed point numbers in thousandths (Milli).
Milli == 1000

\* math.log10 of the mantissas 1, 2 and 5, in thousandths
Log10Mantissa(m) == CASE m = 1 -> 0 [] m = 2 -> 301 [] m = 5 -> 699

\* math.log10(max(value, 1)), in thousandths
Log10Max1(value) ==
    IF value.e < 0 THEN 0 ELSE Milli * value.e + Log10Mantissa(value.m)

\* math.pow(10, x) in thousandths for x = (1000 * a + l) / 10000, a in 0..9 and
\* l one of the three logarithms above
Pow10Frac ==
    << <<1000, 1072, 1175>>, <<1259, 1349, 1479>>, <<1585, 1699, 1862>>,
       <<1995, 2138, 2344>>, <<2512, 2692, 2951>>, <<3162, 3389, 3714>>,
       <<3981, 4267, 4676>>, <<5012, 5372, 5887>>, <<6310, 6762, 7411>>,
       <<7943, 8513, 9330>> >>

RECURSIVE Pow10Int(_)
Pow10Int(q) == IF q = 0 THEN 1 ELSE 10 * Pow10Int(q - 1)

\* math.pow(10, log_value / 10) in thousandths, log_value in thousandths
Pow10Tenth(log_value) ==
    LET q == log_value \div (10 * Milli)
        r == log_value % (10 * Milli)
        a == r \div Milli
        l == r % Milli
        col == CASE l = 0 -> 1 [] l = 301 -> 2 [] l = 699 -> 3
    IN  Pow10Int(q) * Pow10Frac[a + 1][col]

\* the result is not clipped to 40000 Hz
generate_frequency_from_value_unclamped(value) ==
    IF value.m <= 0
    THEN 40 * Milli
    ELSE Max(40 * Pow10Tenth(Log10Max1(value)), 40 * Milli)

\* generate_frequency_from_value, in thousandths of a hertz
generate_frequency_from_value(value) ==
    IF value.m <= 0
    THEN 40 * Milli
    ELSE LET log_value == Log10Max1(value)
             frequency == 40 * Pow10Tenth(log_value)
         IN  Min(Max(frequency, 40 * Milli), 40000 * Milli)

\* Strings that the code indexes or searches are sequences of one-character
\* strings.
HexChars == <<"0", "1", "2", "3", "4", "5", "6", "7", "8", "9",
              "a", "b", "c", "d", "e", "f">>

IsHex(c) == \E k \in DOMAIN HexChars : HexChars[k] = c

HexValue(c) == (CHOOSE k \in DOMAIN HexChars : HexChars[k] = c) - 1

\* token_hash[:16]
Prefix16(token_hash) == SubSeq(token_hash, 1, Min(16, Len(token_hash)))

\* The hash integer is below 2^64: it is kept as its eight bytes, byte 0 the
\* least significant.  int(s, 16) of at most 16 hex digits:
IntBase16(s) ==
    LET nibble(k) == IF k < Len(s) THEN HexValue(s[Len(s) - k]) ELSE 0
    IN  [b \in 0..7 |-> 16 * nibble(2 * b + 1) + nibble(2 * b)]

\* (hash_int >> (8 * n)) & 0xFF
ShiftByte(hash_int, n) == IF n \in DOMAIN hash_int THEN hash_int[n] ELSE 0

\* (hash_int >> (8 * n)) & 0xFFFF
ShiftWord(hash_int, n) == ShiftByte(hash_int, n) + 256 * ShiftByte(hash_int, n + 1)

\* the phase of harmonic i is taken from byte i - 1
Harmonic_byte_before(base_freq, hash_int, i) ==
    [frequency |-> base_freq * i,
     amplitude |-> Milli \div i,
     phase |-> ShiftByte(hash_int, i - 1)]

\* one pass of the loop over range(1, 6); the amplitude 1.0 / i in thousandths
Harmonic(base_freq, hash_int, i) ==
    [frequency |-> base_freq * i,
     amplitude |-> Milli \div i,
     phase |-> ShiftByte(hash_int, i)]

\* The local hash_int of generate_quantum_tuned_signal.  chance is what
\* random.randint(0, 2**64-1) or hash(token_hash) gives in this call, whichever
\* the call consults: an empty hash takes the random number, a hash whose first
\* 16 characters are not all hex digits makes int() raise ValueError and takes
\* abs(hash(token_hash)).
HashInt(token_hash, chance) ==
    IF token_hash = <<>>
    THEN chance
    ELSE IF \A k \in DOMAIN Prefix16(token_hash) : IsHex(Prefix16(token_hash)[k])
    THEN IntBase16(Prefix16(token_hash))
    ELSE chance

\* generate_quantum_tuned_signal; coherence and entanglement_factor in thousandths
generate_quantum_tuned_signal(token_hash, value, chance, t) ==
    LET hash_int == HashInt(token_hash, chance)
        base_freq == generate_frequency_from_value(value)
    IN  [timestamp |-> t,
         token_hash |-> token_hash,
         token_value |-> value,
         base_frequency |-> base_freq,
         harmonics |-> [i \in 1..5 |-> Harmonic(base_freq, hash_int, i)],
         quantum_tuning |->
             [coherence |-> (ShiftWord(hash_int, 0) * Milli) \div 65535,
              entanglement_factor |-> (ShiftWord(hash_int, 2) * Milli) \div 65535,
              resonance_mode |-> ShiftByte(hash_int, 4)],
         waveform |-> "sine",
         duration |-> Milli]

----------------------------------------------------------------------------
(* cart_robotic_builder.py *)

Themes == {"nature", "people", "action", "emotion"}

\* int(x / d) of a Python float: truncation towards zero
TruncDiv(x, d) == IF x >= 0 THEN x \div d ELSE -((-x) \div d)

\* the thresholds 1000000 and 1000000000 of the tiers are exclusive in the code
generate_build_config_inclusive(token_value, patterns) ==
    [token_value |-> token_value,
     build_tier |-> IF token_value >= 1000000000 THEN "quantum"
                    ELSE IF token_value >= 1000000 THEN "advanced"
                    ELSE IF token_value >= 1000 THEN "professional"
                    ELSE "basic",
     features |-> <<>>,
     config |-> EmptyMap]

\* generate_build_config, with the token value in units of 1000 dollars: the
\* thresholds 1e12, 1e9 and 1e6 dollars are 1000000000, 1000000 and 1000.  The
\* timestamp of the configuration is left out.
generate_build_config(token_value, patterns) ==
    LET tier == IF token_value > 1000000000 THEN "quantum"
                ELSE IF token_value > 1000000 THEN "advanced"
                ELSE IF token_value > 1000 THEN "professional"
                ELSE "basic"
        tier_features ==
            CASE tier = "quantum" -> <<"quantum_processing", "parallel_execution", "advanced_ai">>
              [] tier = "advanced" -> <<"multi_threading", "enhanced_memory", "ai_assist">>
              [] tier = "professional" -> <<"optimization", "caching", "logging">>
              [] OTHER -> <<"standard_processing">>
        themes == IF "themes" \in DOMAIN patterns THEN patterns.themes ELSE EmptyMap
        features ==
            tier_features
            \o (IF "nature" \in DOMAIN themes THEN <<"nature_pattern_recognition">> ELSE <<>>)
            \o (IF "people" \in DOMAIN themes THEN <<"social_analysis">> ELSE <<>>)
    IN  [token_value |-> token_value,
         build_tier |-> tier,
         features |-> features,
         config |-> [optimization_level |-> Len(features),
                     memory_limit |-> Min(token_value, 1000000),
                     thread_count |-> Min(TruncDiv(token_value, 1000), 64)]]

----------------------------------------------------------------------------
(* cart_runner.py: CartRunner *)

NoReturn == [none |-> TRUE]

DefaultTokenValue == 18160000     \* 18160000000 dollars

\* token_value arguments of run_all_carts: left out (None, falsy), 1e9 or 2e9 dollars
TokenValueArgs == {0, 1000000, 2000000}

\* __init__.  _generate_run_id hashes the construction time; each process is
\* taken to get an id of its own, written r.
CartRunner(r, t) ==
    [timestamp |-> t, run_id |-> r, carts |-> EmptyMap, summary |-> EmptyMap]

\* self.results['carts'][stage] = {'status': 'completed', 'results': value}
Record(res, stage, value) ==
    [res EXCEPT !.carts = (stage :> [status |-> "completed", results |-> value]) @@ @]

\* the builder called before the signal generator
AfterStage_swapped(stage) ==
    CASE stage = "memory_search" -> "robotic_builder"
      [] stage = "robotic_builder" -> "signal_generator"
      [] stage = "signal_generator" -> "location_tracker"
      [] stage = "location_tracker" -> "summary"

\* the order of the stage calls in run_all_carts, and what follows the last
AfterStage(stage) ==
    CASE stage = "memory_search" -> "signal_generator"
      [] stage = "signal_generator" -> "robotic_builder"
      [] stage = "robotic_builder" -> "location_tracker"
      [] stage = "location_tracker" -> "summary"

\* a stage method returns: its value is kept, its entry recorded, the next call is due
StageReturns(r, stage, res, value) ==
    /\ results' = [results EXCEPT ![r] = res]
    /\ ret' = [ret EXCEPT ![r] = value]
    /\ pc' = [pc EXCEPT ![r] = AfterStage(stage)]

\* an exception leaves the stage method; nothing in run_all_carts or main catches it
StageRaises(r) ==
    /\ pc' = [pc EXCEPT ![r] = "raised"]
    /\ UNCHANGED <<results, ret>>

Enter(r, stage) ==
    /\ pc[r] = stage
    /\ started' = [started EXCEPT ![r] = Append(@, stage)]

\* main() up to the first stage call of run_all_carts.  The clock has moved on
\* since the process before this one started.
StartRun(r, query, token_value) ==
    /\ pc[r] = "new"
    /\ results' = [results EXCEPT ![r] = CartRunner(r, now)]
    /\ args' = [args EXCEPT ![r] =
                  [query |-> query,
                   token_value |-> IF token_value = 0 THEN DefaultTokenValue
                                   ELSE token_value]]
    /\ pc' = [pc EXCEPT ![r] = "memory_search"]
    /\ now' = now + 1
    /\ UNCHANGED <<modules, brainFile, logFile, ret, started, save_args,
                   log_data, save_ret, overlapped>>
    /\ UNCHANGED <<trackVars, message, callVars>>

run_memory_search(r) ==
    /\ Enter(r, "memory_search")
    /\ IF ~modules["memory_search"]
       THEN StageReturns(r, "memory_search", results[r], ModuleNotAvailable)
       ELSE LET out == IF args[r].query # None
                       THEN perform_full_search(brainFile, args[r].query)
                       ELSE search_brain_memory(brainFile, None)
            IN  IF out.raised
                THEN StageRaises(r)
                ELSE StageReturns(r, "memory_search",
                                  Record(results[r], "memory_search", out.value),
                                  out.value)
    /\ UNCHANGED <<modules, brainFile, logFile, now, args, save_args, log_data,
                   save_ret, overlapped>>
    /\ UNCHANGED <<trackVars, message, callVars>>

\* generate_quantum_tuned_signal: the fields the orchestrator reads back
Signal(token_value, t) == [timestamp |-> t, token_value |-> token_value]

run_signal_generator(r) ==
    /\ Enter(r, "signal_generator")
    /\ IF ~modules["signal_generator"]
       THEN StageReturns(r, "signal_generator", results[r], ModuleNotAvailable)
       ELSE LET signal == Signal(args[r].token_value, now)
            IN  StageReturns(r, "signal_generator",
                             Record(results[r], "signal_generator", signal), signal)
    /\ UNCHANGED <<modules, brainFile, logFile, now, args, save_args, log_data,
                   save_ret, overlapped>>
    /\ UNCHANGED <<trackVars, message, callVars>>

\* '\n'.join([m.get('content', '') for m in matches[:10]])
JoinContents(matches) ==
    JoinLines([n \in 1..Min(10, Len(matches)) |-> matches[n].content])

\* create_build_artifact: the inputs it was given
Artifact(token_value, memory_content, t) ==
    [timestamp |-> t, token_value |-> token_value,
     memory_content |-> memory_content, status |-> "ready"]

run_robotic_builder(r) ==
    /\ Enter(r, "robotic_builder")
    /\ IF ~modules["robotic_builder"]
       THEN StageReturns(r, "robotic_builder", results[r], ModuleNotAvailable)
       ELSE LET memory_results == IF modules["memory_search"]
                                  THEN search_brain_memory(brainFile, None)
                                  ELSE [raised |-> FALSE, value |-> EmptyMap]
            IN  IF memory_results.raised
                THEN StageRaises(r)
                ELSE LET memory_content ==
                             IF "matches" \in DOMAIN memory_results.value
                             THEN JoinContents(memory_results.value.matches)
                             ELSE <<>>
                         artifact == Artifact(args[r].token_value, memory_content, now)
                     IN  StageReturns(r, "robotic_builder",
                                      Record(results[r], "robotic_builder", artifact),
                                      artifact)
    /\ UNCHANGED <<modules, brainFile, logFile, now, args, save_args, log_data,
                   save_ret, overlapped>>
    /\ UNCHANGED <<trackVars, message, callVars>>

\* the two demo events of run_location_tracker(demo_mode=True)
DemoEvents(t) ==
    << track_tap_event(100, 200, 80, t),
       track_slide_event(100, 200, 300, 400, 50, t) >>

run_location_tracker(r) ==
    /\ Enter(r, "location_tracker")
    /\ IF ~modules["location_tracker"]
       THEN StageReturns(r, "location_tracker", results[r], ModuleNotAvailable)
       ELSE LET tok == calculate_movement_token(DemoEvents(now), now)
            IN  StageReturns(r, "location_tracker",
                             Record(results[r], "location_tracker", tok), tok)
    /\ UNCHANGED <<modules, brainFile, logFile, now, args, save_args, log_data,
                   save_ret, overlapped>>
    /\ UNCHANGED <<trackVars, message, callVars>>

\* the total is the number of stages of the pipeline
Summary_attempted(carts, t) ==
    [total_carts |-> 4,
     completed |-> Cardinality({s \in DOMAIN carts : carts[s].status = "completed"}),
     timestamp |-> t]

\* run_all_carts, lines 130-135
Summary(carts, t) ==
    [total_carts |-> Cardinality(DOMAIN carts),
     completed |-> Cardinality({s \in DOMAIN carts : carts[s].status = "completed"}),
     timestamp |-> t]

\* run_all_carts computes the summary and returns self.results
run_all_carts_return(r) ==
    /\ pc[r] = "summary"
    /\ results' = [results EXCEPT ![r].summary = Summary(results[r].carts, now)]
    /\ pc' = [pc EXCEPT ![r] = "returned"]
    /\ UNCHANGED <<modules, brainFile, logFile, now, args, ret, started, save_args,
                   log_data, save_ret, overlapped>>
    /\ UNCHANGED <<trackVars, message, callVars>>

----------------------------------------------------------------------------
(* cart_runner.py: save_to_activity_log *)

\* the file as a reader finds it: absent, a JSON document, or text json.load rejects.
\* The documents written here hold dicts with string keys, lists, strings and
\* ints only, which json.load gives back as json.dump was given them; run data
\* json.dump cannot encode is Unserializable.
Absent == [kind |-> "absent"]
Malformed == [kind |-> "malformed"]
Json(doc) == [kind |-> "json", doc |-> doc]

NoData == [none |-> TRUE]

\* before the calls are made
NoArgs == [query |-> None, token_value |-> 0]
NoSaveArgs == [action_type |-> None, action_data |-> NoData, fault |-> "none"]

\* run data json.dump cannot encode, such as a dict holding a set
Unserializable == [unserializable |-> TRUE]

ActionTypes == {"cart_run", "autonomous_cart_run"}
ActionData == {NoData, [note |-> "manual"], Unserializable}

\* I/O conditions of one call: none, the read fails, open(..., 'w') fails, or the
\* write fails after open(..., 'w') has truncated the file
Faults == {"none", "read", "open", "write"}

\* an entry left by an earlier run
OldEntry ==
    [timestamp |-> 0, action |-> "cart_run", run_id |-> 0,
     summary |-> [total_carts |-> 4, completed |-> 4, timestamp |-> 0],
     data |-> EmptyMap]

\* the log as a run may find it
InitialLogs ==
    { Absent,
      Malformed,
      Json([version |-> "1.0", created |-> 0]),
      Json([activities |-> <<OldEntry>>, version |-> "1.0", created |-> 0]) }

\* the existing document is never read: every call starts a new one
LoadLog_fresh(file, fault, t) ==
    [ok |-> TRUE, doc |-> [activities |-> <<>>, version |-> "1.0", created |-> t]]

\* lines 147-155: log_data, or the exception raised on the way
LoadLog(file, fault, t) ==
    IF file.kind = "absent"
    THEN [ok |-> TRUE, doc |-> [activities |-> <<>>, version |-> "1.0", created |-> t]]
    ELSE IF fault = "read" \/ file.kind = "malformed"
    THEN [ok |-> FALSE]
    ELSE [ok |-> TRUE, doc |-> file.doc]

\* lines 158-164
NewActivity(res, action_type, action_data, t) ==
    [timestamp |-> t,
     action |-> action_type,
     run_id |-> res.run_id,
     summary |-> res.summary,
     data |-> IF action_data = NoData THEN EmptyMap ELSE action_data]

\* insert(0, activity) in place of append(activity)
AppendActivity_front(doc, activity) ==
    IF "activities" \in DOMAIN doc
    THEN [ok |-> TRUE, doc |-> [doc EXCEPT !.activities = <<activity>> \o @]]
    ELSE [ok |-> FALSE]

\* line 166: log_data['activities'].append(activity)
AppendActivity(doc, activity) ==
    IF "activities" \in DOMAIN doc
    THEN [ok |-> TRUE, doc |-> [doc EXCEPT !.activities = Append(@, activity)]]
    ELSE [ok |-> FALSE]

\* lines 147-166
LoadAndAppend(file, res, sa, t) ==
    LET loaded == LoadLog(file, sa.fault, t)
    IN  IF ~loaded.ok
        THEN [ok |-> FALSE]
        ELSE AppendActivity(loaded.doc, NewActivity(res, sa.action_type, sa.action_data, t))

Serializable(doc) ==
    \A i \in 1..Len(doc.activities) : doc.activities[i].data # Unserializable

\* lines 169-170: open(..., 'w') truncates, json.dump writes chunk by chunk
WriteLog(file, doc, fault) ==
    IF fault = "open"
    THEN [ok |-> FALSE, file |-> file]
    ELSE IF fault = "write" \/ ~Serializable(doc)
    THEN [ok |-> FALSE, file |-> Malformed]
    ELSE [ok |-> TRUE, file |-> Json(doc)]

\* no except clause: the failure leaves save_to_activity_log as an exception
SaveReturns_propagates(r, ok) ==
    /\ save_ret' = [save_ret EXCEPT ![r] = IF ok THEN "True" ELSE None]
    /\ pc' = [pc EXCEPT ![r] = IF ok THEN "saved" ELSE "raised"]

\* lines 172-176: the call returns True, or the except clause turns the failure into False
SaveReturns(r, ok) ==
    /\ save_ret' = [save_ret EXCEPT ![r] = IF ok THEN "True" ELSE "False"]
    /\ pc' = [pc EXCEPT ![r] = "saved"]

\* save_to_activity_log as one step, for runs that do not overlap
save_to_activity_log(r, action_type, action_data, fault) ==
    /\ pc[r] = "returned"
    /\ LET sa == [action_type |-> action_type, action_data |-> action_data, fault |-> fault]
           la == LoadAndAppend(logFile, results[r], sa, now)
           w  == WriteLog(logFile, la.doc, fault)
       IN  /\ save_args' = [save_args EXCEPT ![r] = sa]
           /\ IF ~la.ok
              THEN /\ SaveReturns(r, FALSE)
                   /\ UNCHANGED <<logFile, log_data>>
              ELSE /\ log_data' = [log_data EXCEPT ![r] = la.doc]
                   /\ logFile' = w.file
                   /\ SaveReturns(r, w.ok)
    /\ UNCHANGED <<modules, brainFile, now, args, results, ret, started, overlapped>>
    /\ UNCHANGED <<trackVars, message, callVars>>

\* save_to_activity_log up to line 166, for runs that race on the file
save_load(r, action_type, action_data, fault) ==
    /\ pc[r] = "returned"
    /\ fault \in {"none", "read"}
    /\ LET sa == [action_type |-> action_type, action_data |-> action_data, fault |-> fault]
           la == LoadAndAppend(logFile, results[r], sa, now)
       IN  /\ save_args' = [save_args EXCEPT ![r] = sa]
           /\ IF ~la.ok
              THEN /\ SaveReturns(r, FALSE)
                   /\ UNCHANGED log_data
              ELSE /\ log_data' = [log_data EXCEPT ![r] = la.doc]
                   /\ pc' = [pc EXCEPT ![r] = "save_loaded"]
                   /\ UNCHANGED save_ret
    /\ LET between == {o \in Runners \ {r} : pc[o] = "save_loaded"}
       IN  overlapped' = [o \in Runners |->
                            IF o \in between \/ (o = r /\ between # {})
                            THEN TRUE ELSE overlapped[o]]
    /\ UNCHANGED <<modules, brainFile, logFile, now, args, results, ret, started>>
    /\ UNCHANGED <<trackVars, message, callVars>>

\* save_to_activity_log from line 169
save_write(r, fault) ==
    /\ pc[r] = "save_loaded"
    /\ fault \in {"none", "open", "write"}
    /\ LET w == WriteLog(logFile, log_data[r], fault)
       IN  /\ save_args' = [save_args EXCEPT ![r].fault = fault]
           /\ logFile' = w.file
           /\ SaveReturns(r, w.ok)
    /\ UNCHANGED <<modules, brainFile, now, args, results, ret, started, log_data,
                   overlapped>>
    /\ UNCHANGED <<trackVars, message, callVars>>

\* the value is put in billions from 1e9 dollars on
generate_commit_message_from_billion(res) ==
    LET value == IF "signal_generator" \in DOMAIN res.carts
                 THEN res.carts["signal_generator"].results.token_value
                 ELSE 0
    IN  [completed |-> 0, total |-> 0,
         value_str |-> IF value >= 1000000
                       THEN [unit |-> "B", amount |-> (value + 5000) \div 10000]
                       ELSE [unit |-> "$", amount |-> value],
         run |-> res.run_id]

\* generate_commit_message.  The message is kept as its parts; value_str is
\* either hundredths of a billion dollars with the suffix B (f"{value/1e9:.2f}B")
\* or the plain amount (f"{value:.2f}"), which here stays in units of 1000
\* dollars.  1e9 dollars are 1000000.
generate_commit_message(res) ==
    LET summary == res.summary
        completed == IF "completed" \in DOMAIN summary THEN summary.completed ELSE 0
        total == IF "total_carts" \in DOMAIN summary THEN summary.total_carts ELSE 0
        sig_results == IF "signal_generator" \in DOMAIN res.carts
                       THEN res.carts["signal_generator"].results
                       ELSE EmptyMap
        value == IF "token_value" \in DOMAIN sig_results THEN sig_results.token_value ELSE 0
    IN  [completed |-> completed, total |-> total,
         value_str |-> IF value > 1000000
                       THEN [unit |-> "B", amount |-> (value + 5000) \div 10000]
                       ELSE [unit |-> "$", amount |-> value],
         run |-> res.run_id]

\* the end of main(): the results and the suggested commit message are printed
main_commit_message(r) ==
    /\ pc[r] = "saved"
    /\ message' = [message EXCEPT ![r] = generate_commit_message(results[r])]
    /\ pc' = [pc EXCEPT ![r] = "done"]
    /\ UNCHANGED <<modules, brainFile, logFile, now, args, results, ret, started,
                   save_args, log_data, save_ret, overlapped>>
    /\ UNCHANGED <<trackVars, callVars>>

----------------------------------------------------------------------------
(* The environment *)

\* main() has returned, or died of an uncaught exception: the process and its
\* memory are gone
Exit(r) ==
    /\ pc[r] \in {"done", "raised"}
    /\ pc' = [pc EXCEPT ![r] = "exited"]
    /\ args' = [args EXCEPT ![r] = NoArgs]
    /\ results' = [results EXCEPT ![r] = EmptyMap]
    /\ ret' = [ret EXCEPT ![r] = NoReturn]
    /\ started' = [started EXCEPT ![r] = <<>>]
    /\ save_args' = [save_args EXCEPT ![r] = NoSaveArgs]
    /\ log_data' = [log_data EXCEPT ![r] = EmptyMap]
    /\ save_ret' = [save_ret EXCEPT ![r] = None]
    /\ UNCHANGED <<modules, brainFile, logFile, now, overlapped>>
    /\ message' = [message EXCEPT ![r] = NoReturn]
    /\ UNCHANGED <<trackVars, callVars>>

\* brain.py is rewritten, removed or damaged by whoever accumulates it
ChangeBrain(b) ==
    /\ b # brainFile
    /\ brainFile' = b
    /\ UNCHANGED <<modules, logFile, now, pc, args, results, ret, started,
                   save_args, log_data, save_ret, overlapped>>
    /\ UNCHANGED <<trackVars, message, callVars>>

----------------------------------------------------------------------------
(* Gesture session: a caller of cart_location_tracker.py *)

Forces == {-100, 0, 80, 100}
Durations == {-100, 0, 50}

TrackTap(force) ==
    /\ Len(events) < MaxEvents
    /\ events' = Append(events, track_tap_event(100, 200, force, 0))
    /\ token' = NoReturn
    /\ UNCHANGED <<runVars, message, callVars>>

TrackSlide(duration) ==
    /\ Len(events) < MaxEvents
    /\ events' = Append(events, track_slide_event(100, 200, 300, 400, duration, 0))
    /\ token' = NoReturn
    /\ UNCHANGED <<runVars, message, callVars>>

TrackLocation ==
    /\ Len(events) < MaxEvents
    /\ events' = Append(events, track_location_change(0, 0, 0))
    /\ token' = NoReturn
    /\ UNCHANGED <<runVars, message, callVars>>

CalculateMovementToken ==
    /\ token = NoReturn
    /\ token' = calculate_movement_token(events, 0)
    /\ UNCHANGED events
    /\ UNCHANGED <<runVars, message, callVars>>

----------------------------------------------------------------------------
(* A client of CartRunner that calls the stage methods itself *)

MaxCalls == 4     \* stage calls the client makes out of the order of run_all_carts

\* The stage methods are public: instead of the next call of run_all_carts, the
\* client calls another stage method, on the same CartRunner.  pc[r] is the
\* method called next.
ClientCalls(r, stage) ==
    /\ pc[r] \in Stages \cup {"summary"}
    /\ stage # pc[r]
    /\ Len(started[r]) < MaxCalls
    /\ pc' = [pc EXCEPT ![r] = stage]
    /\ UNCHANGED <<modules, brainFile, logFile, now, args, results, ret, started,
                   save_args, log_data, save_ret, overlapped>>
    /\ UNCHANGED <<trackVars, message, callVars>>

----------------------------------------------------------------------------
(* Callers of the library functions of the carts *)

\* token values around the three tier thresholds, in units of 1000 dollars
BuildValues == {-1000, 0, 999, 1000, 1001, 999999, 1000000, 1000001,
                999999999, 1000000000, 1000000001, DefaultTokenValue}

\* pattern analyses: any set of detected themes, each with a count
PatternArgs == {[themes |-> [th \in S |-> 1]] : S \in SUBSET Themes}

BuildConfig(token_value, patterns) ==
    /\ call' = <<[token_value |-> token_value, patterns |-> patterns]>>
    /\ reply' = <<generate_build_config(token_value, patterns)>>
    /\ UNCHANGED <<runVars, trackVars, message>>

MaxExp == 33      \* largest decimal exponent of a token value given to the signal generator

\* zero, a negative amount, 50 cents, and 1, 2, 5, 10, 20, 50, ... dollars
SignalValues ==
    {[m |-> 0, e |-> 0], [m |-> -1, e |-> 0], [m |-> -5, e |-> 3]}
    \cup {[m |-> m, e |-> e] : m \in {1, 2, 5}, e \in -1..MaxExp}

\* a caller asking for the frequency of two values, one after the other
Frequency(value) ==
    /\ Len(call) < 2
    /\ call' = Append(call, [value |-> value])
    /\ reply' = Append(reply, generate_frequency_from_value(value))
    /\ UNCHANGED <<runVars, trackVars, message>>

\* hash ids: none, the orchestrator's default 'demo000...' (60 zeros in the code),
\* a 16 digit hex hash, the same followed by more characters, a short hex hash,
\* and one with a letter that is no hex digit inside its first 16 characters
EmptyHash == <<>>
DemoHash == <<"d", "e", "m", "o", "0", "0", "0", "0">>
HexHash == <<"0", "1", "2", "3", "4", "5", "6", "7", "8", "9", "a", "b", "c", "d", "e", "f">>
TokenHashes == {EmptyHash, DemoHash, HexHash, HexHash \o <<"z", "z">>, <<"f", "f">>,
                <<"1", "2", "g", "4">>}

\* outcomes of random.randint(0, 2**64-1); abs(hash(s)) stays below 2^63
MixedInt == [b \in 0..7 |-> 16 * b + 7]
RandomInts == {[b \in 0..7 |-> 0], MixedInt, [b \in 0..7 |-> 255]}
StrHashes == {h \in RandomInts : h[7] < 128}

SignalArgValues == {[m |-> 0, e |-> 0], [m |-> 1, e |-> 0], [m |-> 2, e |-> 10],
                    [m |-> 1, e |-> 33]}

\* Two calls of generate_quantum_tuned_signal, in the same Python process or in
\* two.  hash() of a string is salted per process: within one process it gives
\* the same number for the same string.
TunedSignal(process, token_hash, value, chance) ==
    /\ Len(call) < 2
    /\ IF token_hash = <<>>
       THEN chance \in RandomInts
       ELSE IF HashInt(token_hash, MixedInt) # MixedInt
       THEN chance = MixedInt       \* neither is consulted
       ELSE /\ chance \in StrHashes
            /\ \A k \in DOMAIN call :
                   (call[k].process = process /\ call[k].token_hash = token_hash)
                       => chance = reply[k].chance
    /\ call' = Append(call, [process |-> process, token_hash |-> token_hash,
                             value |-> value])
    /\ reply' = Append(reply,
                       [chance |-> chance,
                        hash_int |-> HashInt(token_hash, chance),
                        signal |-> generate_quantum_tuned_signal(token_hash, value,
                                                                 chance, now)])
    /\ UNCHANGED <<runVars, trackVars, message>>

MaxLines == 4     \* longest brain.py given to the search, in lines

FileLines == {MarkerLine, CatLine, CatsLine, TreeLine, CodeLine}

BrainTexts == UNION {[1..n -> FileLines] : n \in 1..MaxLines}

SearchQueries == {None, "", "cat", "CAT", "t\nt"}

\* a caller of search_brain_memory with a readable brain.py of these lines
SearchBrain(lines, query) ==
    /\ call = <<>>
    /\ call' = <<[lines |-> lines, query |-> query]>>
    /\ reply' = <<SearchLines(lines, query)>>
    /\ UNCHANGED <<runVars, trackVars, message>>

----------------------------------------------------------------------------
(* Specifications *)

Init ==
    /\ modules \in ModuleImports
    /\ brainFile \in BrainFiles
    /\ logFile \in InitialLogs
    /\ now = 0
    /\ pc = [r \in Runners |-> "new"]
    /\ args = [r \in Runners |-> NoArgs]
    /\ results = [r \in Runners |-> EmptyMap]
    /\ ret = [r \in Runners |-> NoReturn]
    /\ started = [r \in Runners |-> <<>>]
    /\ save_args = [r \in Runners |-> NoSaveArgs]
    /\ log_data = [r \in Runners |-> EmptyMap]
    /\ save_ret = [r \in Runners |-> None]
    /\ overlapped = [r \in Runners |-> FALSE]
    /\ events = <<>>
    /\ token = NoReturn
    /\ message = [r \in Runners |-> NoReturn]
    /\ call = <<>>
    /\ reply = <<>>

\* the processes before this one have exited
Alone(r) == \A o \in Runners : o < r => pc[o] = "exited"

Stage(r) ==
    \/ run_memory_search(r)
    \/ run_signal_generator(r)
    \/ run_robotic_builder(r)
    \/ run_location_tracker(r)
    \/ run_all_carts_return(r)

Env == \E b \in BrainFiles : ChangeBrain(b)

\* runs one after another
Next ==
    \/ \E r \in Runners, q \in Queries, v \in TokenValueArgs : Alone(r) /\ StartRun(r, q, v)
    \/ \E r \in Runners : Stage(r)
    \/ \E r \in Runners, ty \in ActionTypes, d \in ActionData, f \in Faults :
           save_to_activity_log(r, ty, d, f)
    \/ \E r \in Runners : main_commit_message(r)
    \/ \E r \in Runners : Exit(r)
    \/ Env

Spec == Init /\ [][Next]_vars

\* the two orchestrator runs that race
Racers == {1, 2}

\* two processes running main() at the same time: main() passes the query of its
\* command line, and logs 'autonomous_cart_run' with no data
NextRace ==
    \/ \E r \in Racers, q \in Queries : StartRun(r, q, 0)
    \/ \E r \in Racers : Stage(r)
    \/ \E r \in Racers, f \in Faults : save_load(r, "autonomous_cart_run", NoData, f)
    \/ \E r \in Racers, f \in Faults : save_write(r, f)

SpecRace == Init /\ [][NextRace]_vars

\* a gesture session
NextTrack ==
    \/ \E f \in Forces : TrackTap(f)
    \/ \E d \in Durations : TrackSlide(d)
    \/ TrackLocation
    \/ CalculateMovementToken

SpecTrack == Init /\ [][NextTrack]_vars

\* one CartRunner whose stage methods are called in any order, any number of times
NextClient ==
    \/ \E r \in Runners, q \in Queries : Alone(r) /\ StartRun(r, q, 0)
    \/ \E r \in Runners, stage \in Stages : ClientCalls(r, stage)
    \/ \E r \in Runners : Stage(r)

SpecClient == Init /\ [][NextClient]_vars

\* the callers of the library functions run no orchestrator: there is one set
\* of module globals and files
InitCalls ==
    /\ Init
    /\ modules = [s \in Stages |-> TRUE]
    /\ brainFile = "text"
    /\ logFile = Absent

\* a caller of generate_build_config
NextBuild == \E v \in BuildValues, p \in PatternArgs : BuildConfig(v, p)

SpecBuild == InitCalls /\ [][NextBuild]_vars

\* a caller of generate_frequency_from_value
NextFrequency == \E v \in SignalValues : Frequency(v)

SpecFrequency == InitCalls /\ [][NextFrequency]_vars

\* callers of generate_quantum_tuned_signal
NextSignal ==
    \E p \in {1, 2}, h \in TokenHashes, v \in SignalArgValues, c \in RandomInts :
        TunedSignal(p, h, v, c)

SpecSignal == InitCalls /\ [][NextSignal]_vars

\* a caller of search_brain_memory
NextSearch == \E lines \in BrainTexts, q \in SearchQueries : SearchBrain(lines, q)

SpecSearch == InitCalls /\ [][NextSearch]_vars

----------------------------------------------------------------------------
(* Properties *)

StageOrder == <<"memory_search", "signal_generator", "robotic_builder", "location_tracker">>

Range(f) == {f[i] : i \in DOMAIN f}

IsPrefix(a, b) == Len(a) <= Len(b) /\ SubSeq(b, 1, Len(a)) = a

\* run_all_carts has returned self.results
Returned(r) == pc[r] \in {"returned", "save_loaded", "saved", "done"}

\* the stage method has been called and has returned
StageReturned(r, stage) ==
    /\ stage \in Range(started[r])
    /\ pc[r] # "raised"

\* json.load accepts the file and the document has its activities
Readable(file) == file.kind = "json" /\ "activities" \in DOMAIN file.doc

\* the entries a reader of the file finds
Persisted(file) == IF Readable(file) THEN file.doc.activities ELSE <<>>

\* C1: when a stage's module is unavailable, the stage result recorded for the run
\* is {error: "Module not available"}, and the run goes on to the later stages.
C1_UnavailableStageRecorded ==
    \A r \in Runners : \A stage \in Stages :
        (StageReturned(r, stage) /\ ~modules[stage]) =>
            /\ stage \in DOMAIN results[r].carts
            /\ results[r].carts[stage].results = ModuleNotAvailable

\* C2: no fault raised inside a stage call leaves run_all_carts as an exception.
C2_NoExceptionLeavesRun ==
    \A r \in Runners : pc[r] # "raised"

\* C3: once run_all_carts has returned, total_carts is the number of stages the
\* run attempted, completed is the number of recorded stages with status
\* "completed", completed <= total_carts, and completed < total_carts when some
\* attempted stage did not complete.
C3_SummaryCountsAttempts ==
    \A r \in Runners :
        Returned(r) =>
            LET carts == results[r].carts
                done == {s \in DOMAIN carts : carts[s].status = "completed"}
                attempted == Range(started[r])
            IN  /\ results[r].summary.total_carts = Cardinality(attempted)
                /\ results[r].summary.completed = Cardinality(done)
                /\ results[r].summary.completed <= results[r].summary.total_carts
                /\ (attempted \ done # {} =>
                        results[r].summary.completed < results[r].summary.total_carts)

\* C4: the stages of a run start in the order memory search, signal generator,
\* robotic builder, location tracker, each after the one before it has returned,
\* and the summary is computed only after all four have been attempted.
C4_FixedStageOrder ==
    \A r \in Runners :
        /\ IsPrefix(started[r], StageOrder)
        /\ pc[r] \in Stages => started[r] \o <<pc[r]>> = SubSeq(StageOrder, 1, Len(started[r]) + 1)
        /\ (results[r] # EmptyMap /\ results[r].summary # EmptyMap) => started[r] = StageOrder
        /\ (pc[r] = "summary" \/ Returned(r)) => started[r] = StageOrder

C4_Witness ==
    \E r \in Runners :
        /\ pc[r] = "returned"
        /\ started[r] = StageOrder
        /\ results[r].summary.total_carts = 4

\* C5: a successful save_to_activity_log on a readable log leaves a document with
\* one more activity, the last being the entry of the calling run (action, run
\* id, summary, data), the earlier entries, version and created unchanged.
C5_RoundTrip ==
    [][\A r \in Runners :
          (/\ pc[r] = "returned"
           /\ pc'[r] = "saved"
           /\ save_ret'[r] = "True"
           /\ Readable(logFile)) =>
              LET before == logFile.doc
                  after == logFile'.doc
                  n == Len(before.activities)
                  sa == save_args'[r]
              IN  /\ Readable(logFile')
                  /\ Len(after.activities) = n + 1
                  /\ after.activities[n + 1].action = sa.action_type
                  /\ after.activities[n + 1].run_id = results[r].run_id
                  /\ after.activities[n + 1].summary = results[r].summary
                  /\ after.activities[n + 1].data =
                         (IF sa.action_data = NoData THEN EmptyMap ELSE sa.action_data)
                  /\ SubSeq(after.activities, 1, n) = before.activities
                  /\ after.version = before.version
                  /\ after.created = before.created]_vars

C5_Witness ==
    \E r \in Runners :
        /\ pc[r] = "saved"
        /\ save_ret[r] = "True"
        /\ Readable(logFile)
        /\ Len(logFile.doc.activities) = 2
        /\ logFile.doc.activities[1] = OldEntry
        /\ logFile.doc.activities[2].run_id = r
        /\ logFile.doc.activities[2].data = [note |-> "manual"]

\* C6: on an absent or malformed log (unparseable, or without activities), and
\* with nothing else failing, save_to_activity_log starts a new document with
\* version and created, appends the entry, writes it and returns True: the log
\* then holds exactly that entry.
C6_RecoversMalformedLog ==
    [][\A r \in Runners :
          (/\ pc[r] = "returned"
           /\ pc'[r] = "saved"
           /\ save_args'[r].fault = "none"
           /\ save_args'[r].action_data # Unserializable
           /\ ~Readable(logFile)) =>
              /\ save_ret'[r] = "True"
              /\ Readable(logFile')
              /\ Len(logFile'.doc.activities) = 1
              /\ logFile'.doc.activities[1].run_id = results[r].run_id
              /\ logFile'.doc.version = "1.0"
              /\ logFile'.doc.created = now]_vars

\* the read fails on a file that is there, or opening or writing fails
IOFailure(file, fault) ==
    \/ fault = "read" /\ file.kind # "absent"
    \/ fault \in {"open", "write"}

\* C7: whatever I/O failure meets save_to_activity_log, the call returns (it
\* does not raise), it returns False, and the run result held by the
\* orchestrator is what it was.
C7_PersistFailureNotFatal ==
    [][\A r \in Runners :
          (pc[r] = "returned" /\ pc'[r] # "returned") =>
              /\ pc'[r] = "saved"
              /\ results'[r] = results[r]
              /\ IOFailure(logFile, save_args'[r].fault) => save_ret'[r] = "False"]_vars

C7_Witness ==
    \E r \in Runners :
        /\ pc[r] = "saved"
        /\ save_ret[r] = "False"
        /\ save_args[r].fault = "write"
        /\ results[r].summary # EmptyMap
        /\ results[r].summary.completed = 4

\* C8: no save_to_activity_log, failing or not, removes or changes an entry of
\* the persisted log: the persisted activities only grow at the end.
C8_AppendOnly ==
    [][IsPrefix(Persisted(logFile), Persisted(logFile'))]_vars

\* C9: a save that succeeds leaves its own entry last in the log, and when no
\* other save ran between its load and its write every entry persisted before is
\* still there, so calls that do not overlap both leave their entries; calls that
\* overlap can both succeed and leave one entry only (C9_LostUpdate).
C9_NonOverlappingKeepBoth ==
    [][\A r \in Runners :
          (pc[r] = "save_loaded" /\ save_ret'[r] = "True") =>
              LET after == Persisted(logFile')
              IN  /\ Readable(logFile')
                  /\ after # <<>>
                  /\ after[Len(after)].run_id = results[r].run_id
                  /\ ~overlapped[r] =>
                         /\ IsPrefix(Persisted(logFile), after)
                         /\ Len(after) = Len(Persisted(logFile)) + 1]_vars

HasEntryOf(file, r) ==
    \E i \in 1..Len(Persisted(file)) : Persisted(file)[i].run_id = r

C9_LostUpdate ==
    \E r1 \in Runners : \E r2 \in Runners \ {r1} :
        /\ pc[r1] = "saved" /\ save_ret[r1] = "True"
        /\ pc[r2] = "saved" /\ save_ret[r2] = "True"
        /\ overlapped[r1] /\ overlapped[r2]
        /\ HasEntryOf(logFile, r2)
        /\ ~HasEntryOf(logFile, r1)

\* the values of the events, added from the last event back
RECURSIVE ValueSum(_)
ValueSum(es) ==
    IF es = <<>> THEN 0 ELSE ValueSum(SubSeq(es, 1, Len(es) - 1)) + es[Len(es)].token_value

\* C10: for a non-empty list of events calculate_movement_token returns a token
\* whose total_value is the sum of the events' values and whose event_count is
\* the length of the list; for the empty list it returns an error marker.
C10_TokenSumsEvents ==
    token # NoReturn =>
        IF events = <<>>
        THEN DOMAIN token = {"error"}
        ELSE /\ "error" \notin DOMAIN token
             /\ token.total_value = ValueSum(events)
             /\ token.event_count = Len(events)

C10_Witness ==
    /\ token # NoReturn
    /\ Len(events) = MaxEvents
    /\ \E i, j \in 1..Len(events) : events[i].type = "tap" /\ events[j].type = "slide"
    /\ token.total_value = ValueSum(events)
    /\ token.total_value > 0

\* C11: the build tier is a step function of the token value alone, with
\* exclusive lower bounds: quantum above 1e12 dollars, advanced above 1e9 and up
\* to 1e12, professional above 1e6 and up to 1e9, basic up to 1e6; a value
\* exactly on a threshold gets the lower tier, whatever themes were detected.
C11_TierStepFunction ==
    \A k \in DOMAIN call :
        LET v == call[k].token_value
            tier == reply[k].build_tier
        IN  /\ (tier = "quantum") <=> (v > 1000000000)
            /\ (tier = "advanced") <=> (v > 1000000 /\ v <= 1000000000)
            /\ (tier = "professional") <=> (v > 1000 /\ v <= 1000000)
            /\ (tier = "basic") <=> (v <= 1000)
            /\ \A p \in PatternArgs : generate_build_config(v, p).build_tier = tier

\* a value of exactly 1e9 dollars, with themes detected, was given the
\* professional tier
C11_Witness ==
    /\ call # <<>>
    /\ call[1].token_value = 1000000
    /\ DOMAIN call[1].patterns.themes = {"nature", "people"}
    /\ reply[1].build_tier = "professional"
    /\ Len(reply[1].features) = 5

\* the order of the decimal values: negative amounts and zero first, then by
\* exponent and mantissa
ValueKey(value) == IF value.m <= 0 THEN value.m ELSE 10 * (value.e + 2) + value.m

AtLeastOne(value) == value.m > 0 /\ value.e >= 0

\* C12: generate_frequency_from_value is deterministic, returns exactly 40 Hz
\* for every value <= 0, and for values >= 1 returns a frequency in
\* [40, 40000] Hz that never decreases when the value grows.
C12_FrequencyMonotoneInRange ==
    \A j \in DOMAIN call, k \in DOMAIN call :
        /\ call[j].value.m <= 0 => reply[j] = 40 * Milli
        /\ AtLeastOne(call[j].value)
              => reply[j] >= 40 * Milli /\ reply[j] <= 40000 * Milli
        /\ call[j] = call[k] => reply[j] = reply[k]
        /\ (AtLeastOne(call[j].value) /\ ValueKey(call[j].value) <= ValueKey(call[k].value))
              => reply[j] <= reply[k]

\* a value above 1 dollar got a frequency strictly between the limits, and a
\* larger value then got the upper limit
C12_Witness ==
    /\ Len(call) = 2
    /\ AtLeastOne(call[1].value)
    /\ ValueKey(call[1].value) < ValueKey(call[2].value)
    /\ reply[1] > 40 * Milli
    /\ reply[1] < reply[2]
    /\ reply[2] = 40000 * Milli

\* C13: for every hash id (hex, not hex, empty) and every value the call returns
\* a fully populated signal with exactly the five harmonics i = 1..5 in order;
\* harmonic i has frequency base * i, amplitude 1/i (strictly decreasing) and as
\* phase byte i of the hash integer (0..255); coherence and entanglement lie in
\* [0, 1] and the resonance mode in 0..255.
C13_SignalWellFormed ==
    \A k \in DOMAIN reply :
        LET sig == reply[k].signal
            h == reply[k].hash_int
            q == sig.quantum_tuning
        IN  /\ DOMAIN sig = {"timestamp", "token_hash", "token_value", "base_frequency",
                             "harmonics", "quantum_tuning", "waveform", "duration"}
            /\ sig.token_hash = call[k].token_hash
            /\ sig.token_value = call[k].value
            /\ DOMAIN sig.harmonics = 1..5
            /\ \A i \in 1..5 :
                   /\ sig.harmonics[i].frequency = sig.base_frequency * i
                   /\ sig.harmonics[i].amplitude = Milli \div i
                   /\ sig.harmonics[i].phase = h[i]
                   /\ sig.harmonics[i].phase \in 0..255
                   /\ i > 1 => sig.harmonics[i].amplitude < sig.harmonics[i - 1].amplitude
            /\ q.coherence \in 0..Milli
            /\ q.entanglement_factor \in 0..Milli
            /\ q.resonance_mode \in 0..255

\* a hex hash id 0123456789abcdef gave the phases cd, ab, 89, 67, 45 of its
\* bytes 1..5, and an empty and a non-hex hash id gave signals too
C13_Witness ==
    /\ Len(reply) = 2
    /\ call[1].token_hash = HexHash
    /\ [i \in 1..5 |-> reply[1].signal.harmonics[i].phase] = <<205, 171, 137, 103, 69>>
    /\ reply[1].signal.quantum_tuning.resonance_mode = 103
    /\ call[2].token_hash \in {EmptyHash, DemoHash}
    /\ reply[2].signal.harmonics[5].frequency = 5 * reply[2].signal.base_frequency

\* C14: the signal is determined by its input: two calls with the same hash id
\* and value give the same base frequency, harmonics and quantum tuning, also
\* when the hash id is empty or its first 16 characters are not hex.
C14_SignalDeterministic ==
    \A j \in DOMAIN call, k \in DOMAIN call :
        (call[j].token_hash = call[k].token_hash /\ call[j].value = call[k].value)
            => /\ reply[j].signal.base_frequency = reply[k].signal.base_frequency
               /\ reply[j].signal.harmonics = reply[k].signal.harmonics
               /\ reply[j].signal.quantum_tuning = reply[k].signal.quantum_tuning

\* C15: every event made by track_tap_event, track_slide_event or
\* track_location_change, whatever arguments it was given, carries a value that
\* is not negative and is a function of the event's own fields: of the force for
\* a tap, of distance and velocity = distance / max(duration, 0.01) for a slide,
\* and 5.0 for a location change.
C15_EventValueNonNegative ==
    \A k \in DOMAIN events :
        LET e == events[k]
        IN  /\ e.token_value >= 0
            /\ e.type = "tap" => e.token_value = calculate_tap_value(e.force)
            /\ e.type = "slide" =>
                   /\ e.velocity = (e.distance * Scale) \div Max(e.duration, 1)
                   /\ e.token_value = calculate_slide_value(e.distance, e.velocity)
            /\ e.type = "location" => e.token_value = 5 * Scale

\* the blocks the search parsed out of the lines of call k, each as its lines
BlocksOf(k) ==
    LET blocks == ParseBlocks(call[k].lines, 1, <<>>, <<>>, FALSE)
    IN  [i \in DOMAIN blocks |-> SplitLines(blocks[i])]

\* the (block index, line index) pairs, from 0, whose line contains the query
\* of call k whatever the case of the letters
Hits(k) ==
    LET B == BlocksOf(k)
    IN  {p \in (0..MaxLines) \X (0..MaxLines) :
            /\ p[1] < Len(B)
            /\ p[2] < Len(B[p[1] + 1])
            /\ Contains(Lower(Chars[call[k].query]), Lower(B[p[1] + 1][p[2] + 1]))}

QueryGiven(k) == call[k].query # None /\ Chars[call[k].query] # <<>>

\* C18: for the parsed blocks and a non-empty query, search_brain_memory returns
\* exactly one result for each (block index, line index) whose line contains the
\* query as a case-insensitive substring, in increasing (block, line) order, each
\* with that line as content and the lines j-1..j+1 of the same block, clipped to
\* the block, as context.  Without a query it returns no matches but still
\* reports total_blocks, total_lines, the four category counts and match_count 0.
C18_SearchMatches ==
    \A k \in DOMAIN call :
        LET B == BlocksOf(k)
            m == reply[k].matches
            stats == reply[k].stats
        IN  IF QueryGiven(k)
            THEN /\ \A p \in Hits(k) :
                        Cardinality({n \in DOMAIN m :
                                        <<m[n].block_index, m[n].line_index>> = p}) = 1
                 /\ \A n \in DOMAIN m :
                        LET i == m[n].block_index
                            j == m[n].line_index
                            lo == IF j = 0 THEN 0 ELSE j - 1
                            hi == IF j + 1 >= Len(B[i + 1]) THEN Len(B[i + 1]) - 1 ELSE j + 1
                        IN  /\ <<i, j>> \in Hits(k)
                            /\ m[n].content = B[i + 1][j + 1]
                            /\ m[n].context = [c \in 1..(hi - lo + 1) |-> B[i + 1][lo + c]]
                 /\ \A n1 \in DOMAIN m, n2 \in DOMAIN m :
                        n1 < n2 =>
                            \/ m[n1].block_index < m[n2].block_index
                            \/ /\ m[n1].block_index = m[n2].block_index
                               /\ m[n1].line_index < m[n2].line_index
            ELSE /\ m = <<>>
                 /\ stats.total_blocks = Len(B)
                 /\ stats.total_lines = Len(call[k].lines)
                 /\ DOMAIN stats.categories = {"CATS", "WATER", "TREES", "PEOPLE"}
                 /\ stats.match_count = 0

\* the query CAT found the lines Cat and CATS of a block of three lines, the
\* first with the whole block as its context
C18_Witness ==
    /\ call # <<>>
    /\ call[1].query = "CAT"
    /\ Len(reply[1].matches) = 2
    /\ reply[1].matches[1].line_index = 1
    /\ Len(reply[1].matches[1].context) = 3
    /\ Len(reply[1].matches[2].context) = 2

\* the matches the memory-search stage recorded: of perform_full_search when the
\* run has a query, of search_brain_memory when it has none
RecordedMatches(res) ==
    LET found == res.carts["memory_search"].results
    IN  IF "brain_results" \in DOMAIN found
        THEN found.brain_results.matches
        ELSE found.matches

\* C16: the analysis input of the build-artifact stage is the output of the
\* memory search: the lines the memory-search stage matched for the run's query,
\* the first 10 at most, joined line by line.
C16_BuilderGetsSearchMatches ==
    \A r \in Runners :
        (/\ results[r] # EmptyMap
         /\ "memory_search" \in DOMAIN results[r].carts
         /\ "robotic_builder" \in DOMAIN results[r].carts)
            => results[r].carts["robotic_builder"].results.memory_content
                   = JoinContents(RecordedMatches(results[r]))

\* C17: the commit message reports the completed and total stage counts of the
\* run summary and a value figure taken from the signal-generation stage's token
\* value (0 when that stage recorded no result), in abbreviated billions exactly
\* when the value is >= 1e9 dollars and as a plain dollar amount otherwise.
C17_CommitMessage ==
    \A r \in Runners :
        message[r] # NoReturn =>
            LET carts == results[r].carts
                value == IF "signal_generator" \in DOMAIN carts
                         THEN carts["signal_generator"].results.token_value
                         ELSE 0
            IN  /\ message[r].completed = results[r].summary.completed
                /\ message[r].total = results[r].summary.total_carts
                /\ (message[r].value_str.unit = "B") <=> (value >= 1000000)
                /\ message[r].value_str.unit = "$" => message[r].value_str.amount = value

\* C19: after any sequence of stage calls on a CartRunner, with the modules
\* available or not, results['carts'] has at most one entry per stage name and
\* none under another key, every entry has status "completed", and a stage whose
\* module is unavailable has no entry; so a computed summary always has
\* completed = total_carts.
C19_OnlyCompletedEntries ==
    \A r \in Runners :
        results[r] # EmptyMap =>
            LET carts == results[r].carts
                summary == results[r].summary
            IN  /\ DOMAIN carts \subseteq Stages
                /\ \A s \in DOMAIN carts :
                       /\ carts[s].status = "completed"
                       /\ modules[s]
                       /\ \E n \in DOMAIN started[r] : started[r][n] = s
                /\ summary # EmptyMap =>
                       /\ summary.completed = summary.total_carts
                       /\ summary.total_carts <= 4

\* the client called a stage a second time and out of order, and the summary
\* still counts four entries
C19_Witness ==
    \E r \in Runners :
        /\ results[r] # EmptyMap
        /\ Len(started[r]) > 4
        /\ \E n \in DOMAIN started[r] :
               n > 1 /\ started[r][n] = "memory_search" /\ started[r][n - 1] = "robotic_builder"
        /\ results[r].summary # EmptyMap
        /\ results[r].summary.total_carts = 4

=============================================================================
